---- MODULE Spec2Model ----
(***************************************************************************)
(* A model of insightly_stages.py: the stage tracker that, for every open  *)
(* opportunity, keeps three custom fields (last known stage, last time     *)
(* stage changed, days in current stage) in step with the opportunity's    *)
(* pipeline stage.                                                         *)
(*                                                                         *)
(* Representation.                                                         *)
(*   - A datetime is a number of ticks; TicksPerDay ticks make a day.  The *)
(*     date string '%Y-%m-%d 00:00:00' is the day number.                  *)
(*   - A custom-field entry of an opportunity is a record                  *)
(*     [CUSTOM_FIELD_ID, HAS_VALUE, FIELD_VALUE]; HAS_VALUE = FALSE is an  *)
(*     entry without the key FIELD_VALUE (FIELD_VALUE is then 0 and never  *)
(*     read as a value).                                                   *)
(*   - A field name is a sequence of words; lower() acts word by word and  *)
(*     `a in b` is containment of a contiguous run of words.               *)
(*   - STAGE_ID NullStage is a null/absent stage reference.                *)
(***************************************************************************)
EXTENDS Integers, Sequences, FiniteSets, TLC

\* ------------------------------------------------------------ bounds
\* Open opportunities on the server.
NumOpps == 2
\* The clock runs from day 0 to the end of day MaxDay.
MaxDay == 1
\* Clock ticks in a day.
TicksPerDay == 2
\* Stage moves and failed PUTs in a behaviour.
MaxEvents == 1
\* The largest result set of a search.
MaxTotal == 12
\* The largest page the server answers with.
MaxPage == 5

Opps == 1..NumOpps
MaxTime == (MaxDay + 1) * TicksPerDay - 1

\* ------------------------------------------------------------ time
\* datetime.now().strftime('%Y-%m-%d 00:00:00'): the time of day is dropped.
Strftime(t) == t \div TicksPerDay

\* datetime.strptime(s, '%Y-%m-%d 00:00:00'): midnight of that day.
Strptime(d) == d * TicksPerDay

\* A variant of TimedeltaDays with the operands of the subtraction swapped.
TimedeltaDaysSwapped(t, last_time) == (last_time - t) \div TicksPerDay

\* (datetime.now() - last_time).days: timedelta.days is the floor of the
\* difference in days.
TimedeltaDays(t, last_time) == (t - last_time) \div TicksPerDay

\* ------------------------------------------------------------ field definitions
Words == {"last", "Last", "known", "Known", "stage", "Stage", "time", "changed",
          "days", "in", "current", "old", "title"}

LowerWord(w) ==
    CASE w = "Last" -> "last"
      [] w = "Known" -> "known"
      [] w = "Stage" -> "stage"
      [] OTHER -> w

\* str.lower()
Lower(name) == [i \in 1..Len(name) |-> LowerWord(name[i])]

\* the `in` operator on strings
Contains(s, sub) ==
    \E i \in 0..(Len(s) - Len(sub)) : SubSeq(s, i + 1, i + Len(sub)) = sub

FieldMatches(x, name) ==
    x.FIELD_FOR = "OPPORTUNITY" /\ Contains(Lower(x.FIELD_NAME), Lower(name))

get_fields_by_name(fields, name) ==
    SelectSeq(fields, LAMBDA x : FieldMatches(x, name))

Def(id, for, name) ==
    [CUSTOM_FIELD_ID |-> id, FIELD_FOR |-> for, FIELD_NAME |-> name]

DefStage == Def("last_stage", "OPPORTUNITY", <<"Last", "Known", "Stage">>)
DefTime == Def("last_time", "OPPORTUNITY", <<"last", "time", "stage", "changed">>)
DefDays == Def("days_in_cur_stage", "OPPORTUNITY", <<"days", "in", "current", "stage">>)
DefOldStage == Def("old_stage", "OPPORTUNITY", <<"old", "last", "known", "stage">>)
DefContactDays == Def("contact_days", "CONTACT", <<"days", "in", "current", "stage">>)
DefTitle == Def("title", "OPPORTUNITY", <<"title">>)

\* /CustomFields answers under which the three definitions resolve.
GoodFieldLists ==
    { <<DefStage, DefTime, DefDays>>,
      <<DefTitle, DefDays, DefContactDays, DefTime, DefStage>> }

\* /CustomFields answers with a definition missing or ambiguous.
BadFieldLists ==
    { <<>>,
      <<DefStage, DefTime>>,
      <<DefStage, DefContactDays, DefTime>>,
      <<DefStage, DefTime, DefDays, DefOldStage>>,
      <<DefTime, DefDays, DefTitle>> }

NoIds == [last_known_stage |-> "", last_time_stage_changed |-> "",
          days_in_current_stage |-> ""]

\* ------------------------------------------------------------ stage catalog
NullStage == 0
UnknownStage == 9

\* The answer of /PipelineStages.
PipelineStages ==
    << [STAGE_ID |-> 1, STAGE_ORDER |-> 0],
       [STAGE_ID |-> 2, STAGE_ORDER |-> 1],
       [STAGE_ID |-> 3, STAGE_ORDER |-> 2] >>

CatalogIds == {PipelineStages[i].STAGE_ID : i \in 1..Len(PipelineStages)}
StageIds == CatalogIds \cup {NullStage, UnknownStage}

\* {x['STAGE_ID']: x for x in ...}: a later stage of the same id replaces an
\* earlier one.
StagesDict(list) ==
    [id \in {list[i].STAGE_ID : i \in 1..Len(list)} |->
        LET last == CHOOSE i \in 1..Len(list) :
                      /\ list[i].STAGE_ID = id
                      /\ \A j \in (i + 1)..Len(list) : list[j].STAGE_ID # id
        IN  list[last]]

\* ------------------------------------------------------------ custom fields
Entry(id, v) == [CUSTOM_FIELD_ID |-> id, HAS_VALUE |-> TRUE, FIELD_VALUE |-> v]
EntryNoValue(id) == [CUSTOM_FIELD_ID |-> id, HAS_VALUE |-> FALSE, FIELD_VALUE |-> 0]

HasField(cf, field_id) == \E i \in 1..Len(cf) : cf[i].CUSTOM_FIELD_ID = field_id

\* The index of field[0] of [x for x in opp['CUSTOMFIELDS'] if x['CUSTOM_FIELD_ID'] == field_id]
FirstIndex(cf, field_id) ==
    CHOOSE i \in 1..Len(cf) :
        /\ cf[i].CUSTOM_FIELD_ID = field_id
        /\ \A j \in 1..(i - 1) : cf[j].CUSTOM_FIELD_ID # field_id

\* A variant of get_custom_field that synthesises an entry without looking
\* for one.
get_custom_field_always_new(cf, field_id, has_default, default) ==
    Append(cf, IF has_default THEN Entry(field_id, default)
                              ELSE EntryNoValue(field_id))

\* A variant of get_custom_field that puts the synthesised entry first.
get_custom_field_insert_first(cf, field_id, has_default, default) ==
    IF HasField(cf, field_id)
    THEN cf
    ELSE <<IF has_default THEN Entry(field_id, default)
                          ELSE EntryNoValue(field_id)>> \o cf

\* get_custom_field: the list opp['CUSTOMFIELDS'] after the call.  The entry
\* the call returns is the one at FirstIndex of this list; has_default is
\* `default is not None`.
get_custom_field(cf, field_id, has_default, default) ==
    IF HasField(cf, field_id)
    THEN cf
    ELSE Append(cf, IF has_default THEN Entry(field_id, default)
                                   ELSE EntryNoValue(field_id))

\* field['FIELD_VALUE'] = v, through the reference get_custom_field returned.
SetValue(cf, i, v) == [cf EXCEPT ![i] = Entry(cf[i].CUSTOM_FIELD_ID, v)]

\* last_known_stage.get('FIELD_VALUE') as a condition: a missing key, None
\* and 0 are all false.
Truthy(field) == field.HAS_VALUE /\ field.FIELD_VALUE # 0

\* Line 186: the opportunity is still in the stage it was last seen in.
SameStage(stage_order, known) == stage_order = known

\* A variant of Advanced that takes any move for an advance.
Moved(stage_order, known) == stage_order # known

\* Line 189: the opportunity has moved forward.
Advanced(stage_order, known) == stage_order > known

\* Lines 187-188: recompute the days since the stored date; t is the clock
\* read on line 188.
Linger(cf, last_time_stage_changed, days_in_current_stage, t) ==
    LET last_time == Strptime(cf[last_time_stage_changed].FIELD_VALUE)
    IN  SetValue(cf, days_in_current_stage, TimedeltaDays(t, last_time))

\* Lines 190-192: a new stage starts today; t is the clock read on line 191.
Advance(cf, last_known_stage, last_time_stage_changed, days_in_current_stage, stage_order, t) ==
    SetValue(SetValue(SetValue(cf, days_in_current_stage, 0),
                      last_time_stage_changed, Strftime(t)),
             last_known_stage, stage_order)

\* A variant of FirstTracking without line 195.
FirstTrackingKeepsDate(cf, last_known_stage, last_time_stage_changed, stage_order, t) ==
    SetValue(cf, last_known_stage, stage_order)

\* Lines 194-195: first tracking; t is the clock read on line 195.
FirstTracking(cf, last_known_stage, last_time_stage_changed, stage_order, t) ==
    SetValue(SetValue(cf, last_known_stage, stage_order),
             last_time_stage_changed, Strftime(t))

\* Lines 180-195 on one opportunity: the clock is read at t1 (line 180) and
\* again at t2 (line 188, 191 or 195).  The result is
\* [raised, CUSTOMFIELDS]: raised when last_time_stage_changed['FIELD_VALUE']
\* is read from an entry that has no such key (KeyError, line 187).
TrackStage(cf, field_ids, stage_order, t1, t2) ==
    LET now == Strftime(t1)
        cf1 == get_custom_field(cf, field_ids.last_known_stage, FALSE, 0)
        cf2 == get_custom_field(cf1, field_ids.last_time_stage_changed, TRUE, now)
        cf3 == get_custom_field(cf2, field_ids.days_in_current_stage, TRUE, 0)
        last_known_stage == FirstIndex(cf3, field_ids.last_known_stage)
        last_time_stage_changed == FirstIndex(cf3, field_ids.last_time_stage_changed)
        days_in_current_stage == FirstIndex(cf3, field_ids.days_in_current_stage)
    IN  IF Truthy(cf3[last_known_stage])
        THEN IF SameStage(stage_order, cf3[last_known_stage].FIELD_VALUE)
             THEN IF cf3[last_time_stage_changed].HAS_VALUE
                  THEN [raised |-> FALSE,
                        CUSTOMFIELDS |->
                           Linger(cf3, last_time_stage_changed,
                                  days_in_current_stage, t2)]
                  ELSE [raised |-> TRUE, CUSTOMFIELDS |-> cf3]
             ELSE IF Advanced(stage_order, cf3[last_known_stage].FIELD_VALUE)
             THEN [raised |-> FALSE,
                   CUSTOMFIELDS |->
                      Advance(cf3, last_known_stage, last_time_stage_changed,
                              days_in_current_stage, stage_order, t2)]
             ELSE [raised |-> FALSE, CUSTOMFIELDS |-> cf3]
        ELSE [raised |-> FALSE,
              CUSTOMFIELDS |->
                 FirstTracking(cf3, last_known_stage, last_time_stage_changed,
                               stage_order, t2)]

\* ------------------------------------------------------------ state
VARIABLES
    fields,          \* server: the answer of /CustomFields
    server,          \* server: opportunity id -> [STAGE_ID, CUSTOMFIELDS]
    clock,           \* the wall clock, in ticks
    events,          \* number of stage moves and failed PUTs so far
    pc,              \* "idle" (no process), "loop" (in the for loop, line 172), "done"
    outcome,         \* how main() ended: "none", "exit_zero" or "raised"
    error_logged,    \* logging.error was called in this run
    opportunities,   \* the list fetched on line 167, mutated in place
    stages,          \* the dict built on line 168
    ids,             \* the three resolved CUSTOM_FIELD_IDs, lines 163-165
    idx,             \* position of the for loop in opportunities
    gets,            \* urls fetched by this run
    puts,            \* opportunity ids saved by this run, in order
    last,            \* history: what the latest loop iteration did
    hist,            \* history: per opportunity, its latest successful save
    x_total_count,   \* server: the size of the result set a search reports
    page_size,       \* server: the most items one response holds
    skip,            \* insightly_get_all: the local skip, line 29
    results,         \* insightly_get_all: the local results, line 28
    returned         \* insightly_get_all: the call has returned, line 40

\* The state of one call of insightly_get_all and of the search it pages.
paging == <<x_total_count, page_size, skip, results, returned>>

vars == <<fields, server, clock, events, pc, outcome, error_logged,
          opportunities, stages, ids, idx, gets, puts, last, hist, paging>>

OppsUrl == "/opportunities/Search?opportunity_state=OPEN"

\* ------------------------------------------------------------ initial states
Other == Entry("other", 7)

LksChoices ==
    {<<>>, <<EntryNoValue("last_stage")>>}
        \cup {<<Entry("last_stage", 1)>>, <<Entry("last_stage", 2)>>}
LtChoices == {<<>>, <<Entry("last_time", 0)>>}
DaysChoices == {<<>>, <<Entry("days_in_cur_stage", 0)>>, <<Entry("days_in_cur_stage", 3)>>}

\* CUSTOMFIELDS of an opportunity as the server may hold them before the
\* first run: every combination of the three tracked entries being absent
\* or present, and some lists with a foreign entry, a repeated id, another
\* order, or an entry that has no value.
InitFields ==
    {a \o b \o c : a \in LksChoices, b \in LtChoices, c \in DaysChoices}
        \cup { <<Other>>,
               <<Other, Entry("last_stage", 1), Entry("last_time", 0)>>,
               <<Entry("days_in_cur_stage", 1), Other, Entry("last_time", 0),
                 Entry("last_stage", 2)>>,
               <<Entry("last_stage", 1), Entry("last_stage", 2),
                 Entry("last_time", 0), Entry("days_in_cur_stage", 0)>>,
               <<Entry("last_stage", 1), EntryNoValue("last_time")>> }

OppState(stage_id, cf) == [STAGE_ID |-> stage_id, CUSTOMFIELDS |-> cf]

FocusStates ==
    {OppState(s, cf) : s \in CatalogIds, cf \in InitFields}
        \cup {OppState(s, cf) : s \in {NullStage, UnknownStage},
                                cf \in {<<>>, <<Entry("last_stage", 1), Other>>}}

\* One opportunity starts in any state; the others have no stage.
ServerChoices ==
    UNION { { [p \in Opps |-> IF p = o THEN f ELSE OppState(NullStage, <<Other>>)] :
                 f \in FocusStates } : o \in Opps }

\* An untracked opportunity with a stage of the catalog, one without a
\* stage, and one whose stage is not in the catalog.
PlainStates ==
    { OppState(2, <<Other>>), OppState(NullStage, <<Other>>),
      OppState(UnknownStage, <<>>) }

NoLast ==
    [kind |-> "none", opp |-> 0, stage_id |-> NullStage, order |-> 0,
     pre |-> <<>>, post |-> <<>>, t1 |-> 0, t2 |-> 0,
     prev |-> [saved |-> FALSE, day |-> 0, stage_id |-> NullStage, since |-> 0,
               max_order |-> 0]]

InitRest ==
    /\ clock = 0
    /\ events = 0
    /\ pc = "idle"
    /\ outcome = "none"
    /\ error_logged = FALSE
    /\ opportunities = <<>>
    /\ stages = <<>>
    /\ ids = NoIds
    /\ idx = 1
    /\ gets = {}
    /\ puts = <<>>
    /\ last = NoLast
    /\ hist = [o \in Opps |-> NoLast.prev]

\* The search answers in one page (FetchOpportunities) and no call of
\* insightly_get_all is followed page by page.
OnePage ==
    /\ x_total_count = NumOpps
    /\ page_size = NumOpps
    /\ skip = 0
    /\ results = <<>>
    /\ returned = TRUE

\* Initial states for the properties of the stage tracker on one opportunity.
Init ==
    /\ fields = <<DefStage, DefTime, DefDays>>
    /\ server \in ServerChoices
    /\ InitRest
    /\ OnePage

\* Initial states for the properties of a whole run: any answer of
\* /CustomFields, and every opportunity in one of a few states.
InitRun ==
    /\ \/ fields = <<DefStage, DefTime, DefDays>> /\ server \in [Opps -> PlainStates]
       \/ fields \in GoodFieldLists \cup BadFieldLists
             /\ server = [o \in Opps |-> OppState(2, <<Other>>)]
    /\ InitRest
    /\ OnePage

\* ------------------------------------------------------------ the run
\* fields_map, lines 149-153.
FieldsMap(fs) ==
    [last_known_stage |-> get_fields_by_name(fs, <<"last", "known", "stage">>),
     last_time_stage_changed |->
         get_fields_by_name(fs, <<"last", "time", "stage", "changed">>),
     days_in_current_stage |->
         get_fields_by_name(fs, <<"days", "in", "current", "stage">>)]

\* A variant of FieldsInvalid without lines 156-158.
FieldsMissing(fields_map) ==
    \E fieldname \in DOMAIN fields_map : Len(fields_map[fieldname]) = 0

\* Lines 155-161: some required definition has more than one match or none.
FieldsInvalid(fields_map) ==
    \E fieldname \in DOMAIN fields_map :
        Len(fields_map[fieldname]) > 1 \/ Len(fields_map[fieldname]) = 0

\* insightly_get_all, lines 26-40, when the server answers the whole result
\* set in one page: the first response already holds X-Total-Count items.
FetchOpportunities ==
    [i \in 1..NumOpps |->
        [OPPORTUNITY_ID |-> i, STAGE_ID |-> server[i].STAGE_ID,
         CUSTOMFIELDS |-> server[i].CUSTOMFIELDS]]

\* process_opportunities_stages, lines 146-170: resolve the fields, then
\* fetch the opportunities and the stages.
StartRun ==
    /\ pc = "idle"
    /\ LET fields_map == FieldsMap(fields)
       IN  IF FieldsInvalid(fields_map)
           THEN /\ gets' = {"/CustomFields"}
                /\ error_logged' = TRUE
                /\ pc' = "done"
                /\ outcome' = "exit_zero"
                /\ ids' = NoIds
                /\ opportunities' = <<>>
                /\ stages' = <<>>
           ELSE /\ gets' = {"/CustomFields", OppsUrl, "/PipelineStages"}
                /\ error_logged' = FALSE
                /\ pc' = "loop"
                /\ outcome' = "none"
                /\ ids' = [n \in DOMAIN fields_map |-> fields_map[n][1].CUSTOM_FIELD_ID]
                /\ opportunities' = FetchOpportunities
                /\ stages' = StagesDict(PipelineStages)
    /\ idx' = 1
    /\ puts' = <<>>
    /\ last' = NoLast
    /\ UNCHANGED <<paging, fields, server, clock, events, hist>>

\* The history entry of one loop iteration.
Step(kind, opp, order, post, t2) ==
    [kind |-> kind, opp |-> opp.OPPORTUNITY_ID, stage_id |-> opp.STAGE_ID,
     order |-> order, pre |-> opp.CUSTOMFIELDS, post |-> post,
     t1 |-> clock, t2 |-> t2,
     prev |-> IF opp.OPPORTUNITY_ID \in Opps THEN hist[opp.OPPORTUNITY_ID]
                                            ELSE NoLast.prev]

\* Line 173-174: an opportunity without a stage is passed over.
SkipOpportunity ==
    /\ pc = "loop" /\ idx <= Len(opportunities)
    /\ opportunities[idx].STAGE_ID = NullStage
    /\ idx' = idx + 1
    /\ last' = Step("skipped", opportunities[idx], 0,
                    opportunities[idx].CUSTOMFIELDS, clock)
    /\ UNCHANGED <<paging, fields, server, clock, events, pc, outcome, error_logged,
                   opportunities, stages, ids, gets, puts, hist>>

\* A variant of UnknownStageReturn that logs and goes on with the next
\* opportunity.
UnknownStageContinue ==
    /\ pc = "loop" /\ idx <= Len(opportunities)
    /\ opportunities[idx].STAGE_ID # NullStage
    /\ opportunities[idx].STAGE_ID \notin DOMAIN stages
    /\ error_logged' = TRUE
    /\ idx' = idx + 1
    /\ last' = Step("aborted", opportunities[idx], 0,
                    opportunities[idx].CUSTOMFIELDS, clock)
    /\ UNCHANGED <<paging, fields, server, clock, events, pc, outcome, opportunities,
                   stages, ids, gets, puts, hist>>

\* Lines 175-177: the stage is not in the catalog; log and return.
UnknownStageReturn ==
    /\ pc = "loop" /\ idx <= Len(opportunities)
    /\ opportunities[idx].STAGE_ID # NullStage
    /\ opportunities[idx].STAGE_ID \notin DOMAIN stages
    /\ error_logged' = TRUE
    /\ pc' = "done"
    /\ outcome' = "exit_zero"
    /\ last' = Step("aborted", opportunities[idx], 0,
                    opportunities[idx].CUSTOMFIELDS, clock)
    /\ UNCHANGED <<paging, fields, server, clock, events, opportunities, stages, ids,
                   idx, gets, puts, hist>>

\* The history of the opportunity after a save: the day and stage of the
\* save, the day since which every save saw this stage order, and the
\* highest stage order known so far: the highest a save has seen, or the
\* one the first save found recorded by the runs before it.
Saved(h, opp, day) ==
    LET cf == opp.CUSTOMFIELDS
        order == stages[opp.STAGE_ID].STAGE_ORDER
        found == IF HasField(cf, ids.last_known_stage)
                    /\ cf[FirstIndex(cf, ids.last_known_stage)].HAS_VALUE
                 THEN cf[FirstIndex(cf, ids.last_known_stage)].FIELD_VALUE
                 ELSE 0
        known == IF h.saved THEN h.max_order ELSE found
    IN  [saved |-> TRUE, day |-> day, stage_id |-> opp.STAGE_ID,
         since |-> IF h.saved /\ h.stage_id = opp.STAGE_ID THEN h.since ELSE day,
         max_order |-> IF known > order THEN known ELSE order]

\* A variant of ShouldSave that saves only what the branch changed.
SaveIfChanged(pre, post) == post # pre

\* Lines 197-198: the opportunity is saved whatever the branch did.
ShouldSave(pre, post) == TRUE

\* The clock reads that may follow a read at t while one opportunity is
\* processed: the same tick, or the next one when midnight lies between
\* them (a run is short: within a day its ticks are not told apart).
LaterReads(t) == {t} \cup {u \in {t + 1} : Strftime(u) # Strftime(t)}

\* Lines 178-199 for one opportunity: track its stage and save it.  The
\* clock is read on line 180 and again, no earlier, inside the branch; the
\* PUT answers 200 or (while the events last) another status.
ProcessOpportunity ==
    /\ pc = "loop" /\ idx <= Len(opportunities)
    /\ opportunities[idx].STAGE_ID # NullStage
    /\ opportunities[idx].STAGE_ID \in DOMAIN stages
    /\ \E t2 \in LaterReads(clock), put_ok \in BOOLEAN :
          LET opp == opportunities[idx]
              stage_order == stages[opp.STAGE_ID].STAGE_ORDER
              r == TrackStage(opp.CUSTOMFIELDS, ids, stage_order, clock, t2)
              put == ~r.raised /\ ShouldSave(opp.CUSTOMFIELDS, r.CUSTOMFIELDS)
              saved == put /\ put_ok
          IN  /\ t2 <= MaxTime
              /\ clock' = t2
              /\ opportunities' =
                    [opportunities EXCEPT ![idx].CUSTOMFIELDS = r.CUSTOMFIELDS]
              /\ put_ok \/ (put /\ events < MaxEvents)
              /\ events' = IF put_ok THEN events ELSE events + 1
              /\ last' = Step(IF r.raised THEN "raised"
                              ELSE IF ~put THEN "unsaved"
                              ELSE IF put_ok THEN "saved" ELSE "put_failed",
                              opp, stage_order, r.CUSTOMFIELDS, t2)
              /\ IF ~r.raised /\ ~put
                 THEN /\ idx' = idx + 1
                      /\ UNCHANGED <<server, puts, hist, pc, outcome>>
                 ELSE IF saved
                 THEN /\ server' = [server EXCEPT ![opp.OPPORTUNITY_ID] =
                                       OppState(opp.STAGE_ID, r.CUSTOMFIELDS)]
                      /\ puts' = Append(puts, opp.OPPORTUNITY_ID)
                      /\ hist' = [hist EXCEPT ![opp.OPPORTUNITY_ID] =
                                     Saved(@, opp, Strftime(t2))]
                      /\ idx' = idx + 1
                      /\ UNCHANGED <<pc, outcome>>
                 ELSE /\ pc' = "done"
                      /\ outcome' = "raised"
                      /\ UNCHANGED <<server, puts, hist, idx>>
    /\ UNCHANGED <<paging, fields, error_logged, stages, ids, gets>>

\* The for loop is exhausted: the function returns and main() ends.
FinishRun ==
    /\ pc = "loop" /\ idx > Len(opportunities)
    /\ pc' = "done"
    /\ outcome' = "exit_zero"
    /\ UNCHANGED <<paging, fields, server, clock, events, error_logged, opportunities,
                   stages, ids, idx, gets, puts, last, hist>>

\* ------------------------------------------------------------ environment
\* The process is over; cron starts the next one later.
Exit ==
    /\ pc = "done"
    /\ pc' = "idle"
    /\ outcome' = "none"
    /\ error_logged' = FALSE
    /\ opportunities' = <<>>
    /\ stages' = <<>>
    /\ ids' = NoIds
    /\ idx' = 1
    /\ gets' = {}
    /\ puts' = <<>>
    /\ last' = NoLast
    /\ UNCHANGED <<paging, fields, server, clock, events, hist>>

\* Time passes between two runs.
Tick ==
    /\ pc = "idle"
    /\ clock < MaxTime
    /\ clock' = clock + 1
    /\ UNCHANGED <<paging, fields, server, events, pc, outcome, error_logged,
                   opportunities, stages, ids, idx, gets, puts, last, hist>>

\* Between two runs a user moves an opportunity to another pipeline stage.
ChangeStage ==
    /\ pc = "idle"
    /\ events < MaxEvents
    /\ \E o \in Opps, s \in CatalogIds :
          /\ server[o].STAGE_ID \in CatalogIds
          /\ s # server[o].STAGE_ID
          /\ server' = [server EXCEPT ![o].STAGE_ID = s]
    /\ events' = events + 1
    /\ UNCHANGED <<paging, fields, clock, pc, outcome, error_logged, opportunities,
                   stages, ids, idx, gets, puts, last, hist>>

Next ==
    \/ StartRun
    \/ SkipOpportunity
    \/ UnknownStageReturn
    \/ ProcessOpportunity
    \/ FinishRun
    \/ Exit
    \/ Tick
    \/ ChangeStage

Spec == Init /\ [][Next]_vars

SpecRun == InitRun /\ [][Next]_vars

\* ------------------------------------------------------------ insightly_get_all
\* The result set of the search: items 1 .. x_total_count, in server order.
Items == [i \in 1..x_total_count |-> i]

Min(a, b) == IF a < b THEN a ELSE b

\* The body of the response to a request with skip=s: the items s .. s+P-1
\* of the result set (counted from 0), fewer or none at its end.
Page(s) == SubSeq(Items, s + 1, Min(s + page_size, x_total_count))

\* Every skip past the end of the largest result set is answered alike, by
\* an empty page: such a skip is kept as SkipCap.
SkipCap == MaxTotal + 1

\* Line 39.
NextSkip(s, len) == Min(s + len, SkipCap)

\* One turn of the loop of lines 30-39, the response being a 200: request
\* the page at skip, add it to results, and return when results has reached
\* X-Total-Count, else move skip on.
GetPage ==
    /\ ~returned
    /\ LET response == Page(skip)
       IN  /\ results' = results \o response
           /\ IF Len(results') >= x_total_count
              THEN returned' = TRUE /\ skip' = skip
              ELSE returned' = FALSE /\ skip' = NextSkip(skip, Len(results'))
    /\ UNCHANGED <<x_total_count, page_size, fields, server, clock, events, pc,
                   outcome, error_logged, opportunities, stages, ids, idx,
                   gets, puts, last, hist>>

\* A call of insightly_get_all on a search of any size served in pages of
\* any size.
InitGetAll ==
    /\ fields = <<DefStage, DefTime, DefDays>>
    /\ server = [o \in Opps |-> OppState(NullStage, <<Other>>)]
    /\ InitRest
    /\ x_total_count \in 0..MaxTotal
    /\ page_size \in 1..MaxPage
    /\ skip = 0
    /\ results = <<>>
    /\ returned = FALSE

NextGetAll == GetPage

\* The loop is sequential code: while it has not returned, its next turn
\* is taken.
SpecGetAll == InitGetAll /\ [][NextGetAll]_vars /\ WF_vars(GetPage)

\* ------------------------------------------------------------ properties
\* The order of a stage id in the answer of /PipelineStages.
OrderOf(stage_id) ==
    LET i == CHOOSE i \in 1..Len(PipelineStages) : PipelineStages[i].STAGE_ID = stage_id
    IN  PipelineStages[i].STAGE_ORDER

\* What a custom-field list records for a field id: whether it has an entry
\* (entry), whether that entry has a value (has) and the value (v).
Val(cf, field_id) ==
    IF HasField(cf, field_id)
    THEN [entry |-> TRUE, has |-> cf[FirstIndex(cf, field_id)].HAS_VALUE,
          v |-> cf[FirstIndex(cf, field_id)].FIELD_VALUE]
    ELSE [entry |-> FALSE, has |-> FALSE, v |-> 0]

\* The latest loop iteration tracked an opportunity and saved it: Pre and
\* Post are its three fields before the run and as saved, Today the day of
\* the save, Live the order of its stage.
JustSaved == last.kind = "saved"
PreStage == Val(last.pre, ids.last_known_stage)
PreTime == Val(last.pre, ids.last_time_stage_changed)
PreDays == Val(last.pre, ids.days_in_current_stage)
PostFields == server[last.opp].CUSTOMFIELDS
PostStage == Val(PostFields, ids.last_known_stage)
PostTime == Val(PostFields, ids.last_time_stage_changed)
PostDays == Val(PostFields, ids.days_in_current_stage)
Today == Strftime(clock)
Live == OrderOf(last.stage_id)
Recorded(x, v) == x.has /\ x.v = v

\* C1: an opportunity whose last_known_stage has no recorded value is, after
\* one run, recorded at its current stage order with last_time_stage_changed
\* today, and days_in_current_stage is what it was before the run (0 if the
\* field was absent).
C1_NeverTracked ==
    (JustSaved /\ ~PreStage.has) =>
        /\ Recorded(PostStage, Live)
        /\ Recorded(PostTime, Today)
        /\ Recorded(PostDays, IF PreDays.has THEN PreDays.v ELSE 0)

C1_Witness ==
    /\ JustSaved /\ ~PreStage.has /\ PreDays.has /\ PreDays.v = 3
    /\ Recorded(PostStage, 2) /\ Recorded(PostDays, 3)

\* C2: an opportunity whose current stage order equals its recorded
\* last_known_stage has, after one run, days_in_current_stage equal to the
\* whole days between the stored last_time_stage_changed and today, and
\* last_known_stage and last_time_stage_changed unchanged.
C2_SameStage ==
    (JustSaved /\ Recorded(PreStage, Live) /\ PreTime.has) =>
        /\ Recorded(PostDays, Today - PreTime.v)
        /\ PostStage = PreStage
        /\ PostTime = PreTime

\* C3: an opportunity whose current stage order is greater than its recorded
\* last_known_stage has, after one run, days_in_current_stage 0,
\* last_time_stage_changed today and last_known_stage the current order.
C3_Advanced ==
    (JustSaved /\ PreStage.has /\ Live > PreStage.v) =>
        /\ Recorded(PostDays, 0)
        /\ Recorded(PostTime, Today)
        /\ Recorded(PostStage, Live)

\* C4 as stated: after a regression (current order below the recorded one)
\* the three fields are what they were before the run, an absent entry
\* staying absent.
C4_RegressionIdentical ==
    (JustSaved /\ PreStage.has /\ Live < PreStage.v) =>
        /\ PostStage = PreStage
        /\ PostTime = PreTime
        /\ PostDays = PreDays

\* C4 amended: after a regression every tracked field that had an entry
\* keeps it unchanged; an absent last_time_stage_changed entry is created
\* holding the day read when the processing of the opportunity began, and
\* an absent days_in_current_stage entry is created holding 0.
C4_RegressionKeepsEntries ==
    (JustSaved /\ PreStage.has /\ Live < PreStage.v) =>
        /\ PostStage = PreStage
        /\ IF PreTime.entry THEN PostTime = PreTime
                            ELSE Recorded(PostTime, Strftime(last.t1))
        /\ IF PreDays.entry THEN PostDays = PreDays
                            ELSE Recorded(PostDays, 0)

C4_Witness ==
    /\ JustSaved /\ PreStage.has /\ Live < PreStage.v
    /\ ~PreTime.entry /\ PreDays.entry /\ PreDays.v = 3
    /\ PostTime.has /\ PostDays = PreDays

\* C5: two runs in succession on the same day with the same live stage: the
\* three fields after the second run are what they were after the first.
C5_Idempotent ==
    (/\ JustSaved
     /\ last.prev.saved
     /\ last.prev.day = Today
     /\ last.prev.stage_id = last.stage_id) =>
        /\ PostStage = PreStage
        /\ PostTime = PreTime
        /\ PostDays = PreDays

\* C6: after each run that processes an opportunity, days_in_current_stage
\* is the number of days since the first run of the current unbroken streak
\* of runs that saw the opportunity at this stage order.
C6_ConsecutiveDays ==
    JustSaved => Recorded(PostDays, Today - hist[last.opp].since)

\* The run went through the whole list: it returned from the end of the for
\* loop, without an error.
RunCompleted == pc = "done" /\ outcome = "exit_zero" /\ ~error_logged

Range(seq) == {seq[i] : i \in 1..Len(seq)}
IdsWithStage(opps) ==
    LET staged == SelectSeq(opps, LAMBDA o : o.STAGE_ID # NullStage)
    IN  [i \in 1..Len(staged) |-> staged[i].OPPORTUNITY_ID]

\* The local copy of the i-th fetched opportunity is as the server holds it.
AsOnServer(i) ==
    opportunities[i].CUSTOMFIELDS = server[opportunities[i].OPPORTUNITY_ID].CUSTOMFIELDS

\* C7: in a run that does not abort, every fetched opportunity with a stage
\* is saved exactly once, in fetch order, whatever its branch did; an
\* opportunity without a stage is not saved and its custom fields are left
\* as fetched.
C7_OneSavePerStagedOpportunity ==
    RunCompleted =>
        /\ puts = IdsWithStage(opportunities)
        /\ \A i \in 1..Len(opportunities) :
              opportunities[i].STAGE_ID = NullStage => AsOnServer(i)

C7_Witness ==
    /\ RunCompleted
    /\ \E i \in 1..Len(opportunities) : opportunities[i].STAGE_ID = NullStage
    /\ JustSaved /\ PreStage.has /\ Live < PreStage.v /\ last.post = last.pre
    /\ last.opp \in Range(puts)

\* The number of definitions of /CustomFields that match a required name.
MatchCount(name) ==
    Cardinality({i \in 1..Len(fields) : FieldMatches(fields[i], name)})
RequiredNames ==
    { <<"last", "known", "stage">>, <<"last", "time", "stage", "changed">>,
      <<"days", "in", "current", "stage">> }

\* C8: when one of the three required definitions has no match or more than
\* one, the run ends before anything else is fetched, processed or saved.
C8_InvalidFieldsAbortFirst ==
    (pc # "idle" /\ \E name \in RequiredNames : MatchCount(name) # 1) =>
        /\ pc = "done"
        /\ error_logged
        /\ gets = {"/CustomFields"}
        /\ puts = <<>>
        /\ opportunities = <<>>
        /\ last.kind = "none"

C8_Witness ==
    /\ pc = "done" /\ error_logged /\ gets = {"/CustomFields"}
    /\ MatchCount(<<"last", "known", "stage">>) = 2

\* C9: an opportunity with a stage that is not in the catalog ends the run
\* when the loop reaches it: it is neither modified nor saved, and nor is
\* any opportunity after it in fetch order.
C9_UnknownStageAborts ==
    pc # "idle" =>
        /\ \A i \in 1..Len(opportunities) :
              opportunities[i].STAGE_ID \notin CatalogIds \cup {NullStage} =>
                  /\ idx <= i
                  /\ \A j \in i..Len(opportunities) :
                        /\ AsOnServer(j)
                        /\ opportunities[j].OPPORTUNITY_ID \notin Range(puts)
        /\ last.kind = "aborted" => pc = "done"

C9_Witness ==
    /\ last.kind = "aborted" /\ pc = "done"
    /\ idx > 1 /\ Len(puts) = idx - 1

\* C10: every fatal error path (a required definition missing or ambiguous,
\* a stage that is not in the catalog) ends the run in a failure outcome,
\* and the run ends in success only after all fetched opportunities were
\* processed.
C10_FatalEndsInFailure ==
    pc = "done" =>
        /\ error_logged => outcome = "raised"
        /\ outcome = "exit_zero" => idx > Len(opportunities)

\* C11: insightly_get_all returns the whole result set: at every turn of
\* its loop the items retrieved so far are the first items of the result set
\* in server order, none skipped and none twice, and what it returns is the
\* result set.
IsPrefix(s, t) == Len(s) <= Len(t) /\ s = SubSeq(t, 1, Len(s))
C11_FullResultSet ==
    /\ IsPrefix(results, Items)
    /\ returned => results = Items

\* C12: with every response a 200, the loop of insightly_get_all ends: the
\* call returns.
C12_Terminates == <>returned

\* The latest loop iteration ran lines 178-195 on an opportunity whose stage
\* is in the catalog (whatever became of the PUT).
Processed == last.kind \in {"saved", "put_failed", "raised", "unsaved"}
TrackedIds ==
    {ids.last_known_stage, ids.last_time_stage_changed, ids.days_in_current_stage}
\* The number of entries of a custom-field list that carry a field id.
Count(cf, field_id) ==
    Cardinality({i \in 1..Len(cf) : cf[i].CUSTOM_FIELD_ID = field_id})

\* C13 as stated: after an opportunity with a stage of the catalog has been
\* processed, its custom fields hold exactly one entry for each of the
\* three resolved field ids, whatever they held before.
C13_ExactlyOneEntry ==
    Processed => \A id \in TrackedIds : Count(last.post, id) = 1

\* C13 amended: after processing, each of the three resolved field ids has
\* at least one entry: exactly one when it had none or one before, and as
\* many as before when it had more than one.
C13_OneEntryUnlessRepeated ==
    Processed =>
        \A id \in TrackedIds :
            Count(last.post, id) =
                IF Count(last.pre, id) = 0 THEN 1 ELSE Count(last.pre, id)

C13_Witness ==
    /\ Processed
    /\ \A id \in TrackedIds : Count(last.pre, id) = 0 /\ Count(last.post, id) = 1
    /\ Len(last.pre) = 1

\* C14: once a run has processed and saved an opportunity, its
\* last_known_stage has a recorded value, and every later run handles it by
\* the equal, advanced or regressed branch, for every stage order: a stage
\* order not above the recorded one leaves last_time_stage_changed as it
\* was, and a stage order above it resets days_in_current_stage to 0.
C14_FirstTrackingOnce ==
    (JustSaved /\ last.prev.saved) =>
        /\ PreStage.has
        /\ Live <= PreStage.v => PostTime = PreTime
        /\ Live > PreStage.v => Recorded(PostDays, 0)

\* Lines 180-195 with every clock read falling on day d.
OnOneDay(d) ==
    TrackStage(last.pre, ids, last.order, Strptime(d), Strptime(d)).CUSTOMFIELDS

\* C15: all uses of 'today' while one opportunity is processed denote the
\* same day: the fields it ends with are those that one single day (the day
\* of the first clock read or of the last) gives as the default of an
\* absent last_time_stage_changed, as the day days_in_current_stage is
\* counted to, and as the date written on first tracking or advance.
C15_OneToday ==
    JustSaved =>
        \E d \in {Strftime(last.t1), Strftime(last.t2)} : last.post = OnOneDay(d)

\* The entries of pre are all in post, at their places; one that differs is
\* the first entry of a tracked field id; what post holds beyond pre are
\* entries of tracked field ids.
KeptEntries(pre, post) ==
    /\ Len(post) >= Len(pre)
    /\ \A i \in 1..Len(pre) :
          /\ post[i].CUSTOM_FIELD_ID = pre[i].CUSTOM_FIELD_ID
          /\ post[i] # pre[i] =>
                /\ pre[i].CUSTOM_FIELD_ID \in TrackedIds
                /\ i = FirstIndex(pre, pre[i].CUSTOM_FIELD_ID)
    /\ \A i \in (Len(pre) + 1)..Len(post) : post[i].CUSTOM_FIELD_ID \in TrackedIds

\* C16: processing one opportunity changes nothing but that opportunity's
\* three tracked custom-field values, locally and on the server: every
\* other opportunity, the stage catalog, the field definitions, the
\* opportunity's id and stage, its other custom-field entries and the order
\* of the entries it had are as before.
C16_Frame ==
    [][ProcessOpportunity =>
          LET opp == opportunities[idx]
              id == opp.OPPORTUNITY_ID
          IN  /\ Len(opportunities') = Len(opportunities)
              /\ \A j \in 1..Len(opportunities) :
                    j # idx => opportunities'[j] = opportunities[j]
              /\ opportunities'[idx].OPPORTUNITY_ID = id
              /\ opportunities'[idx].STAGE_ID = opp.STAGE_ID
              /\ KeptEntries(opp.CUSTOMFIELDS, opportunities'[idx].CUSTOMFIELDS)
              /\ stages' = stages /\ fields' = fields
              /\ \A o \in Opps : o # id => server'[o] = server[o]
              /\ server'[id].STAGE_ID = server[id].STAGE_ID
              /\ KeptEntries(server[id].CUSTOMFIELDS, server'[id].CUSTOMFIELDS)]_vars

C16_Witness ==
    /\ JustSaved
    /\ Len(last.pre) = 4 /\ last.pre[2] = Other /\ PostFields[2] = Other
    /\ PostFields # last.pre

\* C17: once last_known_stage holds a positive stage order, no run lowers
\* it, and after every run that saves the opportunity a positive
\* last_known_stage is the highest stage order the runs have seen so far
\* (those before the first run of the behaviour through the value they left
\* recorded).
C17_NeverDecreases ==
    JustSaved =>
        /\ (PreStage.has /\ PreStage.v > 0) => (PostStage.has /\ PostStage.v >= PreStage.v)
        /\ (PostStage.has /\ PostStage.v > 0) => PostStage.v = hist[last.opp].max_order

C17_Witness ==
    /\ JustSaved
    /\ last.prev.saved /\ OrderOf(last.prev.stage_id) = 2 /\ last.prev.max_order = 2
    /\ Recorded(PreStage, 2) /\ Live = 1
    /\ Recorded(PostStage, 2) /\ hist[last.opp].max_order = 2

\* The last_time_stage_changed the server holds for an opportunity.
StoredTime(o) == Val(server[o].CUSTOMFIELDS, DefTime.CUSTOM_FIELD_ID)

\* C18: the clock never going back and every stored
\* last_time_stage_changed being at first absent or not later than today,
\* in every reachable state last_time_stage_changed is not later than the
\* current day, and the days_in_current_stage a run saves is 0 or more.
C18_DatesNotInFuture ==
    /\ \A o \in Opps : StoredTime(o).has => StoredTime(o).v <= Today
    /\ JustSaved => (PostDays.has /\ PostDays.v >= 0)

C18_Witness ==
    /\ JustSaved /\ last.prev.saved /\ last.prev.day = 0
    /\ Today = 1 /\ Recorded(PostTime, 0)
    /\ Recorded(PreDays, 0) /\ Recorded(PostDays, 1)

====
